---- MODULE Spec2Model ----
(***************************************************************************)
(* Candlestick pattern detectors of backend/algorithms/pattern_recognition *)
(* (candlestick.py) over an immutable OHLC series.                         *)
(*                                                                         *)
(* A series is a sequence of bars; the Python position i is data[i + 1].   *)
(* The primitives of backend/tools (is_top, is_black_candle, is_gap,       *)
(* is_lower_lows, is_white_candle) are imported by candlestick.py and are  *)
(* defined here from their documented semantics.                           *)
(***************************************************************************)
EXTENDS Integers, Sequences, FiniteSets

\* Largest price of a bar of the explored series.
MaxPrice == 9
\* Number of single-field, one-tick changes applied to a scenario series.
MaxEdits == 1
\* Number of concurrent callers of the parallel scan.
NumWorkers == 2
\* Number of trailing positions the parallel scan evaluates.
ScanWidth == 2

\* candlestick.py: `if index < 3: return False`.
MinHistory == 3
\* candlestick.py: is_top(data, index - 3, "Close", period=7).
ClosePeriod == 7
\* candlestick.py: is_top(data, i, "High", 5).
HighPeriod == 5
\* candlestick.py: def three_black_crows(data, index, high_range=5).
DefaultHighRange == 5

VARIABLES
    data,   \* the series handed to every detector call
    oob,    \* what a primitive does when handed a position outside the series
    last,   \* the last completed call of the sequential scan, or NoCall
    wpc,    \* per caller: "idle", "loop", "ret", "done"
    wtask,  \* per caller: the call being evaluated
    wi,     \* per caller: the loop variable i of three_black_crows
    wnh,    \* per frame: the local is_near_high of three_black_crows
    wres,   \* per caller: the value the call returned
    memo    \* the first call completed by the repeated scan, or NoCall

vars == <<data, oob, last, wpc, wtask, wi, wnh, wres, memo>>

----------------------------------------------------------------------------
(* Series *)

Bar(o, h, l, c) == [Open |-> o, High |-> h, Low |-> l, Close |-> c]

Fields == {"Open", "High", "Low", "Close"}

\* Three black bars with lower lows, then a bullish bar that opens at its
\* low and closes above the first bar's high.
ScenarioA ==
    << Bar(6, 6, 5, 5), Bar(5, 5, 4, 4), Bar(4, 4, 3, 3), Bar(2, 7, 2, 7) >>

\* A close top at position 0, a gap down, black bars with lower lows.
ScenarioB ==
    << Bar(5, 8, 5, 8), Bar(7, 7, 6, 6), Bar(5, 5, 4, 4), Bar(4, 4, 3, 3) >>

\* A close top at position 7 of the window 1 .. 7, tied at positions 1 and 6,
\* and a higher close at position 0, outside the window.
ScenarioB7 ==
    << Bar(8, 9, 8, 9), Bar(7, 8, 7, 8), Bar(2, 3, 2, 3), Bar(3, 4, 3, 4),
       Bar(4, 5, 4, 5), Bar(5, 6, 5, 6), Bar(6, 8, 6, 8), Bar(7, 8, 7, 8),
       Bar(7, 7, 6, 6), Bar(5, 5, 4, 4), Bar(4, 4, 3, 3) >>

\* A High (and Close) top at position 0 followed by black bars with lower
\* lows and no gap.
ScenarioC ==
    << Bar(8, 9, 8, 9), Bar(8, 8, 7, 7), Bar(7, 7, 6, 6), Bar(6, 6, 5, 5),
       Bar(5, 5, 4, 4), Bar(4, 4, 3, 3), Bar(3, 3, 2, 2), Bar(2, 2, 1, 1),
       Bar(1, 1, 0, 0) >>

\* A series shorter than any pattern: three black bars with lower lows.
ScenarioShort ==
    << Bar(4, 4, 3, 3), Bar(3, 3, 2, 2), Bar(2, 2, 1, 1) >>

Seeds == {ScenarioA, ScenarioB, ScenarioB7, ScenarioC, ScenarioShort}

EditBar(s, p, f, d) == [s EXCEPT ![p] = [@ EXCEPT ![f] = @ + d]]

Neighbours(s) ==
    { EditBar(s, p, f, d) : p \in 1..Len(s), f \in Fields, d \in {-1, 1} }

InPrices(s) == \A p \in 1..Len(s) : \A f \in Fields : s[p][f] \in 0..MaxPrice

RECURSIVE Within(_, _)
Within(S, n) ==
    IF n = 0 THEN S
    ELSE Within(S \cup { t \in UNION { Neighbours(s) : s \in S } : InPrices(t) },
                n - 1)

Universe == Within(Seeds, MaxEdits)

----------------------------------------------------------------------------
(* Values of an evaluation: what it returned and the positions it handed  *)
(* to a primitive or read.                                                *)

True == "True"
False == "False"
Raise == "IndexError"

Undef == {True, False, Raise}

Bool(b) == IF b THEN True ELSE False

R(v, ps) == [v |-> v, passed |-> ps]

InRange(s, i) == i >= 0 /\ i < Len(s)

\* data.iloc[i][f]
At(s, i, f) == s[i + 1][f]

Max(a, b) == IF a >= b THEN a ELSE b

----------------------------------------------------------------------------
(* Primitive predicates (backend/tools) *)

is_black_candle(s, i, u) ==
    IF InRange(s, i) THEN R(Bool(At(s, i, "Close") < At(s, i, "Open")), {i})
    ELSE R(u, {i})

is_white_candle(s, i, u) ==
    IF InRange(s, i) THEN R(Bool(At(s, i, "Close") > At(s, i, "Open")), {i})
    ELSE R(u, {i})

is_lower_lows(s, starting_index, ending_index, u) ==
    IF InRange(s, starting_index) /\ InRange(s, ending_index)
    THEN R(Bool(\A k \in (starting_index + 1)..ending_index :
                    At(s, k, "Low") < At(s, k - 1, "Low")),
           starting_index..ending_index)
    ELSE R(u, {starting_index, ending_index})

is_gap(s, i, u) ==
    IF ~InRange(s, i) THEN R(u, {i})
    ELSE IF i = 0 THEN R(False, {i})
    ELSE R(Bool(At(s, i, "High") < At(s, i - 1, "Low")
                \/ At(s, i, "Low") > At(s, i - 1, "High")), {i - 1, i})

is_top(s, i, field, period, u) ==
    IF InRange(s, i)
    THEN R(Bool(\A k \in Max(0, i - period + 1)..i :
                    At(s, k, field) <= At(s, i, field)),
           Max(0, i - period + 1)..i)
    ELSE R(u, {i})

----------------------------------------------------------------------------
(* Python expressions *)

\* data.iloc[p][f] > data.iloc[q][g]
Gt(s, p, f, q, g, u) ==
    IF InRange(s, p) /\ InRange(s, q)
    THEN R(Bool(At(s, p, f) > At(s, q, g)), {p, q})
    ELSE R(u, {p, q})

\* data.iloc[p][f] == data.iloc[q][g]
Eq(s, p, f, q, g, u) ==
    IF InRange(s, p) /\ InRange(s, q)
    THEN R(Bool(At(s, p, f) = At(s, q, g)), {p, q})
    ELSE R(u, {p, q})

\* c[1] and c[2] and ... : left to right, stopping at the first conjunct that
\* is not true (false, or an exception, which propagates).
RECURSIVE AndFrom(_, _, _)
AndFrom(c, k, ps) ==
    IF k > Len(c) THEN R(True, ps)
    ELSE IF c[k].v = True THEN AndFrom(c, k + 1, ps \cup c[k].passed)
    ELSE R(c[k].v, ps \cup c[k].passed)

AndAll(c) == AndFrom(c, 1, {})

----------------------------------------------------------------------------
(* Pattern detectors (candlestick.py) *)

\* The lows compared over the first three bars of the window only.
three_line_strike_first_three_lows(s, index, u) ==
    IF index < MinHistory THEN R(False, {})
    ELSE AndAll(<< is_lower_lows(s, index - 3, index - 1, u),
                   is_black_candle(s, index - 3, u),
                   is_black_candle(s, index - 2, u),
                   is_black_candle(s, index - 1, u),
                   is_white_candle(s, index, u),
                   Gt(s, index - 1, "Close", index, "Open", u),
                   Gt(s, index, "Close", index - 3, "High", u),
                   Eq(s, index, "Open", index, "Low", u) >>)

three_line_strike(s, index, u) ==
    IF index < MinHistory THEN R(False, {})
    ELSE AndAll(<< is_lower_lows(s, index - 3, index, u),
                   is_black_candle(s, index - 3, u),
                   is_black_candle(s, index - 2, u),
                   is_black_candle(s, index - 1, u),
                   is_white_candle(s, index, u),
                   Gt(s, index - 1, "Close", index, "Open", u),
                   Gt(s, index, "Close", index - 3, "High", u),
                   Eq(s, index, "Open", index, "Low", u) >>)

\* The close of the last bar not compared with the first bar's high.
three_line_strike_simplified_no_close(s, index, u) ==
    IF index < MinHistory THEN R(False, {})
    ELSE AndAll(<< is_lower_lows(s, index - 3, index, u),
                   is_black_candle(s, index - 3, u),
                   is_black_candle(s, index - 2, u),
                   is_black_candle(s, index - 1, u),
                   is_white_candle(s, index, u) >>)

three_line_strike_simplified(s, index, u) ==
    IF index < MinHistory THEN R(False, {})
    ELSE AndAll(<< is_lower_lows(s, index - 3, index, u),
                   is_black_candle(s, index - 3, u),
                   is_black_candle(s, index - 2, u),
                   is_black_candle(s, index - 1, u),
                   is_white_candle(s, index, u),
                   Gt(s, index, "Close", index - 3, "High", u) >>)

\* The gap looked for at the last bar instead of the bar before it.
two_black_gapping_gap_at_index(s, index, u) ==
    IF index < MinHistory THEN R(False, {})
    ELSE AndAll(<< is_top(s, index - 3, "Close", ClosePeriod, u),
                   is_black_candle(s, index - 2, u),
                   is_black_candle(s, index - 1, u),
                   is_black_candle(s, index, u),
                   is_gap(s, index, u),
                   is_lower_lows(s, index - 1, index, u) >>)

two_black_gapping(s, index, u) ==
    IF index < MinHistory THEN R(False, {})
    ELSE AndAll(<< is_top(s, index - 3, "Close", ClosePeriod, u),
                   is_black_candle(s, index - 2, u),
                   is_black_candle(s, index - 1, u),
                   is_black_candle(s, index, u),
                   is_gap(s, index - 1, u),
                   is_lower_lows(s, index - 1, index, u) >>)

\* The guard asking for a whole 7-bar window before index - 3.
two_black_gapping_simplified_full_window(s, index, u) ==
    IF index < MinHistory + ClosePeriod - 1 THEN R(False, {})
    ELSE AndAll(<< is_top(s, index - 3, "Close", ClosePeriod, u),
                   is_black_candle(s, index - 2, u),
                   is_black_candle(s, index - 1, u),
                   is_black_candle(s, index, u),
                   is_lower_lows(s, index - 1, index, u) >>)

two_black_gapping_simplified(s, index, u) ==
    IF index < MinHistory THEN R(False, {})
    ELSE AndAll(<< is_top(s, index - 3, "Close", ClosePeriod, u),
                   is_black_candle(s, index - 2, u),
                   is_black_candle(s, index - 1, u),
                   is_black_candle(s, index, u),
                   is_lower_lows(s, index - 1, index, u) >>)

\* is_near_high kept from the previous call of the frame.
InitNearHigh_stale(stale) == stale

\* is_near_high = False
InitNearHigh(stale) == False

\* starting_index = index - 3; range(starting_index, starting_index - high_range, -1)
LoopStart(index) == index - 3

LoopStop(index, high_range) == LoopStart(index) - high_range

\* is_near_high |= is_top(data, i, "High", 5): acc is the evaluation so far.
NearHighStep(s, i, acc, u) ==
    LET t == is_top(s, i, "High", HighPeriod, u) IN
    IF acc.v = Raise THEN acc
    ELSE IF t.v = Raise THEN R(Raise, acc.passed \cup t.passed)
    ELSE R(Bool(acc.v = True \/ t.v = True), acc.passed \cup t.passed)

RECURSIVE NearHighLoop(_, _, _, _, _)
NearHighLoop(s, i, stop, acc, u) ==
    IF i > stop THEN NearHighLoop(s, i - 1, stop, NearHighStep(s, i, acc, u), u)
    ELSE acc

\* The return expression of three_black_crows, is_near_high already computed.
CrowsReturn(s, index, near, u) ==
    AndAll(<< near,
              is_black_candle(s, index - 2, u),
              is_black_candle(s, index - 1, u),
              is_black_candle(s, index, u),
              is_lower_lows(s, index - 1, index, u) >>)

three_black_crows(s, index, high_range, u) ==
    CrowsReturn(s, index,
                NearHighLoop(s, LoopStart(index), LoopStop(index, high_range),
                             R(InitNearHigh(False), {}), u),
                u)

----------------------------------------------------------------------------
(* The sequential scan: one detector call at a time, each a whole call.   *)

NoCall == [det |-> "none"]

HighRanges == {DefaultHighRange}

Indices(s) == 0..(Len(s) - 1)

Done(det, index, hr, r) ==
    [det |-> det, index |-> index, high_range |-> hr, v |-> r.v,
     passed |-> r.passed]

Idle == [w \in 1..NumWorkers |-> "idle"]
NoTask == [w \in 1..NumWorkers |-> NoCall]
NoLoop == [w \in 1..NumWorkers |-> 0]
NoNear == [w \in 1..NumWorkers |-> False]
NoRes == [w \in 1..NumWorkers |-> "none"]

Init ==
    /\ data \in Universe
    /\ oob \in Undef
    /\ last = NoCall
    /\ wpc = Idle
    /\ wtask = NoTask
    /\ wi = NoLoop
    /\ wnh = NoNear
    /\ wres = NoRes
    /\ memo = NoCall

Call_three_line_strike ==
    /\ last = NoCall
    /\ \E index \in Indices(data) :
         last' = Done("three_line_strike", index, 0,
                      three_line_strike(data, index, oob))
    /\ UNCHANGED <<data, oob, wpc, wtask, wi, wnh, wres, memo>>

Call_three_line_strike_simplified ==
    /\ last = NoCall
    /\ \E index \in Indices(data) :
         last' = Done("three_line_strike_simplified", index, 0,
                      three_line_strike_simplified(data, index, oob))
    /\ UNCHANGED <<data, oob, wpc, wtask, wi, wnh, wres, memo>>

Call_two_black_gapping ==
    /\ last = NoCall
    /\ \E index \in Indices(data) :
         last' = Done("two_black_gapping", index, 0,
                      two_black_gapping(data, index, oob))
    /\ UNCHANGED <<data, oob, wpc, wtask, wi, wnh, wres, memo>>

Call_two_black_gapping_simplified ==
    /\ last = NoCall
    /\ \E index \in Indices(data) :
         last' = Done("two_black_gapping_simplified", index, 0,
                      two_black_gapping_simplified(data, index, oob))
    /\ UNCHANGED <<data, oob, wpc, wtask, wi, wnh, wres, memo>>

Call_three_black_crows ==
    /\ last = NoCall
    /\ \E index \in Indices(data) : \E hr \in HighRanges :
         last' = Done("three_black_crows", index, hr,
                      three_black_crows(data, index, hr, oob))
    /\ UNCHANGED <<data, oob, wpc, wtask, wi, wnh, wres, memo>>

\* The caller takes the boolean; nothing of the call is retained.
Collect ==
    /\ last # NoCall
    /\ last' = NoCall
    /\ UNCHANGED <<data, oob, wpc, wtask, wi, wnh, wres, memo>>

Next ==
    \/ Collect
    \/ Call_three_line_strike
    \/ Call_three_line_strike_simplified
    \/ Call_two_black_gapping
    \/ Call_two_black_gapping_simplified
    \/ Call_three_black_crows

Spec == Init /\ [][Next]_vars

----------------------------------------------------------------------------
(* Calls evaluated statement by statement, by one caller that repeats     *)
(* calls (SpecSeq) or by several callers at once (SpecPar).               *)

Detectors ==
    {"three_line_strike", "three_line_strike_simplified", "two_black_gapping",
     "two_black_gapping_simplified", "three_black_crows"}

Task(det, index, hr) == [det |-> det, index |-> index, high_range |-> hr]

\* A whole call, alone.
Detect(s, t, u) ==
    CASE t.det = "three_line_strike" -> three_line_strike(s, t.index, u)
      [] t.det = "three_line_strike_simplified" ->
             three_line_strike_simplified(s, t.index, u)
      [] t.det = "two_black_gapping" -> two_black_gapping(s, t.index, u)
      [] t.det = "two_black_gapping_simplified" ->
             two_black_gapping_simplified(s, t.index, u)
      [] t.det = "three_black_crows" ->
             three_black_crows(s, t.index, t.high_range, u)

\* is_near_high held in one module-level cell.
NearHighCell_shared(w) == 1

\* is_near_high is a local of the call: each caller's frame has its own.
NearHighCell(w) == w

\* A detector whose body is a guard and one return expression.
Enter(w, index) ==
    /\ wpc[w] = "idle"
    /\ \E det \in Detectors \ {"three_black_crows"} :
         /\ wtask' = [wtask EXCEPT ![w] = Task(det, index, 0)]
         /\ wres' = [wres EXCEPT ![w] = Detect(data, Task(det, index, 0), oob).v]
    /\ wpc' = [wpc EXCEPT ![w] = "done"]
    /\ UNCHANGED <<data, oob, last, wi, wnh, memo>>

\* three_black_crows, lines 112-113.
EnterCrows(w, index) ==
    /\ wpc[w] = "idle"
    /\ \E hr \in HighRanges :
         wtask' = [wtask EXCEPT ![w] = Task("three_black_crows", index, hr)]
    /\ wnh' = [wnh EXCEPT ![NearHighCell(w)] = InitNearHigh(@)]
    /\ wi' = [wi EXCEPT ![w] = LoopStart(index)]
    /\ wpc' = [wpc EXCEPT ![w] = "loop"]
    /\ UNCHANGED <<data, oob, last, wres, memo>>

\* three_black_crows, lines 114-115: one iteration, or the end of the loop.
LoopStep(w) ==
    /\ wpc[w] = "loop"
    /\ IF wi[w] > LoopStop(wtask[w].index, wtask[w].high_range)
       THEN LET n == NearHighStep(data, wi[w], R(wnh[NearHighCell(w)], {}), oob).v
            IN IF n = Raise
               THEN /\ wres' = [wres EXCEPT ![w] = Raise]
                    /\ wpc' = [wpc EXCEPT ![w] = "done"]
                    /\ UNCHANGED <<wi, wnh>>
               ELSE /\ wnh' = [wnh EXCEPT ![NearHighCell(w)] = n]
                    /\ wi' = [wi EXCEPT ![w] = @ - 1]
                    /\ UNCHANGED <<wpc, wres>>
       ELSE /\ wpc' = [wpc EXCEPT ![w] = "ret"]
            /\ UNCHANGED <<wi, wnh, wres>>
    /\ UNCHANGED <<data, oob, last, wtask, memo>>

\* three_black_crows, lines 117-123.
Return(w) ==
    /\ wpc[w] = "ret"
    /\ wres' = [wres EXCEPT ![w] =
                   CrowsReturn(data, wtask[w].index,
                               R(wnh[NearHighCell(w)], {}), oob).v]
    /\ wpc' = [wpc EXCEPT ![w] = "done"]
    /\ UNCHANGED <<data, oob, last, wtask, wi, wnh, memo>>

Forget(w) ==
    /\ wpc' = [wpc EXCEPT ![w] = "idle"]
    /\ wtask' = [wtask EXCEPT ![w] = NoCall]
    /\ wres' = [wres EXCEPT ![w] = "none"]
    /\ wi' = [wi EXCEPT ![w] = 0]

\* The repeating caller takes the boolean and remembers the first call it
\* made and whether another call followed it.
CollectSeq(w) ==
    /\ wpc[w] = "done"
    /\ memo' = IF memo = NoCall
               THEN [det |-> "first", task |-> wtask[w], v |-> wres[w],
                     other |-> FALSE]
               ELSE IF wtask[w] # memo.task THEN [memo EXCEPT !.other = TRUE]
               ELSE memo
    /\ Forget(w)
    /\ UNCHANGED <<data, oob, last, wnh>>

\* A concurrent caller takes the boolean.
CollectPar(w) ==
    /\ wpc[w] = "done"
    /\ Forget(w)
    /\ UNCHANGED <<data, oob, last, wnh, memo>>

InitSeq ==
    /\ data \in Seeds
    /\ oob \in Undef
    /\ last = NoCall
    /\ wpc = Idle
    /\ wtask = NoTask
    /\ wi = NoLoop
    /\ wnh = NoNear
    /\ wres = NoRes
    /\ memo = NoCall

NextSeq ==
    \/ \E index \in Indices(data) : Enter(1, index)
    \/ \E index \in Indices(data) : EnterCrows(1, index)
    \/ LoopStep(1)
    \/ Return(1)
    \/ CollectSeq(1)

SpecSeq == InitSeq /\ [][NextSeq]_vars

\* The positions a parallel scan hands out: the last ScanWidth of the series.
ScanIndices(s) == { i \in Indices(s) : i >= Len(s) - ScanWidth }

ParSeeds == {ScenarioA, ScenarioC}

InitPar ==
    /\ data \in ParSeeds
    /\ oob \in Undef
    /\ last = NoCall
    /\ wpc = Idle
    /\ wtask = NoTask
    /\ wi = NoLoop
    /\ wnh = NoNear
    /\ wres = NoRes
    /\ memo = NoCall

NextPar ==
    \E w \in 1..NumWorkers :
        \/ \E index \in ScanIndices(data) : Enter(w, index)
        \/ \E index \in ScanIndices(data) : EnterCrows(w, index)
        \/ LoopStep(w)
        \/ Return(w)
        \/ CollectPar(w)

SpecPar == InitPar /\ [][NextPar]_vars

----------------------------------------------------------------------------
(* Properties of the sequential scan *)

Open(i) == At(data, i, "Open")
High(i) == At(data, i, "High")
Low(i) == At(data, i, "Low")
Close(i) == At(data, i, "Close")

Bearish(i) == InRange(data, i) /\ Close(i) < Open(i)
Bullish(i) == InRange(data, i) /\ Close(i) > Open(i)

Returned == last # NoCall
Boolean == {True, False}

\* C1: every detector returns false at every index below 3, whatever the
\* series holds.
C1_GuardReturnsFalse ==
    (Returned /\ last.index < 3) => last.v = False

\* C2: on a well-formed series, with a valid index, every detector call ends
\* with a boolean and hands no position outside 0 .. length-1 to a primitive.
WellFormed ==
    \A i \in Indices(data) :
        /\ High(i) >= Max(Open(i), Close(i))
        /\ Low(i) <= Open(i) /\ Low(i) <= Close(i)

C2_NoPositionOutsideSeries ==
    (Returned /\ WellFormed) =>
        (last.v \in Boolean /\ last.passed \subseteq Indices(data))

\* The conditions C3 lists for index >= 3.
StrikeListed(i) ==
    /\ Low(i - 2) < Low(i - 3)
    /\ Low(i - 1) < Low(i - 2)
    /\ Bearish(i - 3) /\ Bearish(i - 2) /\ Bearish(i - 1)
    /\ Bullish(i)
    /\ Close(i) > High(i - 3)
    /\ Close(i - 1) > Open(i)
    /\ Open(i) = Low(i)

StrikeCall == Returned /\ last.det = "three_line_strike" /\ last.index >= 3

\* C3 as stated: at index >= 3 three_line_strike is true exactly when the
\* listed conditions hold, with no condition on low[index] against
\* low[index-1].
C3_StrikeIffListed ==
    StrikeCall => (last.v = True <=> StrikeListed(last.index))

\* C3 amended: at index >= 3 three_line_strike is true exactly when the
\* listed conditions hold and low[index] < low[index-1] as well (the lows
\* fall across all four bars of the window).
C3_StrikeIffListedAndFourthLow ==
    StrikeCall =>
        /\ last.v \in Boolean
        /\ last.v = True <=>
               (StrikeListed(last.index) /\ Low(last.index) < Low(last.index - 1))

C3_StrikeMatched == StrikeCall /\ last.v = True

\* Bar i holds the largest Close of the seven bars ending at i (of the bars
\* from 0 when fewer precede it).
CloseTop(i) == \A k \in Max(0, i - 6)..i : Close(k) <= Close(i)

GapAt(i) == is_gap(data, i, oob).v = True

GappingCall == Returned /\ last.det = "two_black_gapping" /\ last.index >= 3

\* C4: at index >= 3 two_black_gapping is true exactly when bar index-3 is
\* the Close top of its trailing 7-bar window, bars index-2 .. index are
\* bearish, low[index] < low[index-1] and the gap primitive holds at index-1.
C4_GappingIff ==
    GappingCall =>
        /\ last.v \in Boolean
        /\ last.v = True <=>
               /\ CloseTop(last.index - 3)
               /\ Bearish(last.index - 2) /\ Bearish(last.index - 1)
               /\ Bearish(last.index)
               /\ Low(last.index) < Low(last.index - 1)
               /\ GapAt(last.index - 1)

\* A match whose 7-bar window lies wholly inside the series, with an older
\* bar outside it.
C4_GappingMatchedFullWindow == GappingCall /\ last.v = True /\ last.index >= 10

\* Bar j holds the largest High of the five bars ending at j.
HighTop(j) == InRange(data, j) /\ \A k \in Max(0, j - 4)..j : High(k) <= High(j)

NearHigh(i, hr) == \E j \in (i - 3 - hr + 1)..(i - 3) : HighTop(j)

\* C5: three_black_crows is true exactly when bars index-2 .. index are
\* bearish, low[index] < low[index-1] and some bar of the high_range bars
\* ending at index-3 is the High top of its own trailing 5-bar window.
C5_CrowsIff ==
    (Returned /\ last.det = "three_black_crows") =>
        (last.v = True <=>
            /\ NearHigh(last.index, last.high_range)
            /\ Bearish(last.index - 2) /\ Bearish(last.index - 1)
            /\ Bearish(last.index)
            /\ Low(last.index) < Low(last.index - 1))

Matches(r) == r.v = True

\* C6: each strict detector is its simplified variant conjoined with the
\* conditions the variant drops.
C6_StrictIsSimplifiedAndDropped ==
    /\ (Returned /\ last.det = "three_line_strike") =>
          (last.v = True <=>
              /\ Matches(three_line_strike_simplified(data, last.index, oob))
              /\ Close(last.index - 1) > Open(last.index)
              /\ Open(last.index) = Low(last.index))
    /\ (Returned /\ last.det = "two_black_gapping") =>
          (last.v = True <=>
              /\ Matches(two_black_gapping_simplified(data, last.index, oob))
              /\ GapAt(last.index - 1))

\* Every condition but open == low holds: strict false, simplified true.
C6_OnlyOpenLowFails ==
    /\ Returned /\ last.det = "three_line_strike" /\ last.v = False
    /\ Matches(three_line_strike_simplified(data, last.index, oob))
    /\ Close(last.index - 1) > Open(last.index)
    /\ Open(last.index) # Low(last.index)

TruncatedCall ==
    /\ Returned
    /\ last.det \in {"two_black_gapping", "two_black_gapping_simplified"}
    /\ last.index >= 3 /\ last.index <= 8

\* C9: for 3 <= index <= 8 the Close window of both two_black_gapping
\* detectors is bars 0 .. index-3: the call returns a boolean, true exactly
\* when close[index-3] is the largest Close of those bars (ties included) and
\* the other conditions hold.
C9_TruncatedCloseWindow ==
    TruncatedCall =>
        /\ last.v \in Boolean
        /\ last.v = True <=>
               /\ \A k \in 0..(last.index - 3) : Close(k) <= Close(last.index - 3)
               /\ Bearish(last.index - 2) /\ Bearish(last.index - 1)
               /\ Bearish(last.index)
               /\ Low(last.index) < Low(last.index - 1)
               /\ (last.det = "two_black_gapping" => GapAt(last.index - 1))

\* A match at index 3, the top at position 0.
C9_MatchedAtThree == TruncatedCall /\ last.index = 3 /\ last.v = True

StrikeAt(i) ==
    /\ InRange(data, i)
    /\ \/ Matches(three_line_strike(data, i, oob))
       \/ Matches(three_line_strike_simplified(data, i, oob))

\* C10: where a three_line_strike detector matches, the three bearish
\* detectors return false, and no three_line_strike detector matches at the
\* next three indices.
C10_BullishExcludesBearish ==
    /\ ( /\ Returned
         /\ last.det \in {"two_black_gapping", "two_black_gapping_simplified",
                          "three_black_crows"}
         /\ StrikeAt(last.index) ) => last.v = False
    /\ ( /\ Returned
         /\ last.det \in {"three_line_strike", "three_line_strike_simplified"}
         /\ last.v = True ) => \A k \in 1..3 : ~StrikeAt(last.index + k)

----------------------------------------------------------------------------
(* Properties of repeated and of concurrent calls *)

RepeatAgrees ==
    (wpc[1] = "done" /\ memo # NoCall /\ wtask[1] = memo.task)
        => wres[1] = memo.v

\* C7: a detector called again with the same arguments, after any other
\* calls, returns what it returned the first time, and no step of a call
\* changes the series.
C7_Pure == [](RepeatAgrees) /\ [][data' = data /\ oob' = oob]_vars

\* three_black_crows repeated after a call with other arguments.
C7_RepeatedAfterOther ==
    /\ wpc[1] = "done" /\ memo # NoCall /\ wtask[1] = memo.task
    /\ memo.other /\ memo.task.det = "three_black_crows"

\* C8: whatever the interleaving of the callers' steps, each call returns
\* what the same call returns when evaluated alone.
C8_InterleavingFree ==
    \A w \in 1..NumWorkers :
        wpc[w] = "done" => wres[w] = Detect(data, wtask[w], oob).v

\* A three_black_crows call has matched while another caller is inside the
\* loop of a three_black_crows call at another index.
C8_TwoCrowsInFlight ==
    \E w1, w2 \in 1..NumWorkers :
        /\ wpc[w1] = "done" /\ wtask[w1].det = "three_black_crows"
        /\ wres[w1] = True
        /\ wpc[w2] = "loop" /\ wtask[w2].index # wtask[w1].index

====
